---- MODULE Spec2Model ----
(***************************************************************************)
(* nanodb: the in-memory key-value store DB[T] with optional expiry        *)
(* (nanodb.go, printed in README.md) and its file-backed variant           *)
(* DBCache[T] (nanodb_cache.go).  A behaviour works on one store, chosen   *)
(* by Init: store = "DB" or store = "DBCache".                             *)
(*                                                                         *)
(* Every method that holds the store's lock from its first to its last     *)
(* statement is one action.  DB.Timeout takes no lock, so it is a sequence *)
(* of steps that interleave with the other calls, and so is the in-memory  *)
(* timer callback between its test and its deletes.  At most one Timeout   *)
(* call on a DB is in flight at a time.                                    *)
(*                                                                         *)
(* Time: a timestamp the code only ever feeds to time.Since is kept as the *)
(* time elapsed since it, and a timer as the time left until it fires;     *)
(* Tick lets one unit of time pass.  File modification times are stamps of *)
(* the filesystem's own clock, which FsTick advances.                      *)
(***************************************************************************)
EXTENDS Integers, FiniteSets, Sequences, Bags, TLC

(* ---------------------------- bounds ----------------------------------- *)
\* the filesystem's clock (file modification times) runs over 0..MaxTime
MaxTime == 1
\* at most MaxCalls calls are issued in one behaviour
MaxCalls == 3
\* at most MaxWrites calls that write (Add, Del, Timeout, a construction over
\* a store) are issued on a DBCache, and on either store under fairness
MaxWrites == 2
\* expiry durations passed to Timeout range over 0..MaxTimeout
MaxTimeout == 2

\* the keys, in the order encoding/json writes them
KeyOrder == <<"a", "b">>
Keys == {KeyOrder[i] : i \in DOMAIN KeyOrder}
Values == {1, 2}
Durations == 0..MaxTimeout

\* the zero value of T (what a lookup of an absent key yields)
ZeroVal == 0
\* elapsed times are kept up to AgeCap: every duration they are compared
\* against is at most MaxTimeout
AgeCap == MaxTimeout
\* time.Time{}, before every stamp of the filesystem's clock
ZeroTime == -1
NoProc == "none"
NoKey == "-"
TimerProc == "timer"

VARIABLES
  store,      \* which type the behaviour exercises: "DB" or "DBCache"
  data,       \* db.data: map[string]T
  lifetimes,  \* db.lifetimes: map[string]time.Time, kept as the time
              \* elapsed since the timestamp (time.Since), up to AgeCap
  timeout,    \* db.timeout
  mutex,      \* db.mutex: [writer, readers]
  timers,     \* pending time.AfterFunc timers: a bag of [key, after],
              \* after the time left until the timer fires
  cb,         \* DB: the timer callback that holds the lock, if any
  tmo,        \* DB: the Timeout call in flight, if any
  open,       \* DBCache: Fromf has returned a store
  lastSync,   \* DBCache: db.lastSync
  file,       \* DBCache: the backing file [exists, valid, content, mtime]
  fsclock,    \* the filesystem's clock, which stamps file modifications
  ret,        \* the call that returned in the last step, and its result
  calls,      \* number of calls issued so far (on a DBCache: of calls
              \* that write)
  settled,    \* history: key -> [val, age, fixed] of the last returned Add
  deleted,    \* history: keys whose last returned call was Del
  orig,       \* history: the file's content when the store was constructed
              \* or when another writer last replaced it
  synced,     \* history: the last Add or Del of this store returned no error
  fresh,      \* history: no Add, Del or Timeout on this store since Fromf
  expiry,     \* history: Timeout was called with a duration above zero
  iter,       \* the Seq2 iteration in flight, if any
  mine        \* history, DBCache: the keys this store has added or whose
              \* lifetime its Timeout has refreshed

dbVars == <<cb, tmo>>
cacheVars == <<open, lastSync, file, fsclock, orig, synced, fresh>>
vars == <<store, data, lifetimes, timeout, mutex, timers, cb, tmo, open,
          lastSync, file, fsclock, ret, calls, settled, deleted, orig, synced,
          fresh, expiry, iter, mine>>

(* ------------------------------ maps ----------------------------------- *)
EmptyMap == << >>

\* m[k] = v
MapSet(m, k, v) == [x \in (DOMAIN m) \cup {k} |-> IF x = k THEN v ELSE m[x]]

\* delete(m, k)
MapDelete(m, k) == [x \in (DOMAIN m) \ {k} |-> m[x]]

\* m[k], the zero value when k is absent
MapGet(m, k) == IF k \in DOMAIN m THEN m[k] ELSE ZeroVal

\* a time.Since that takes a missing timestamp for the present
SinceNow(k) == IF k \in DOMAIN lifetimes THEN lifetimes[k] ELSE 0

\* time.Since(db.lifetimes[key]); a key with no record reads the zero time,
\* which is longer ago than any duration
Since(k) == IF k \in DOMAIN lifetimes THEN lifetimes[k] ELSE AgeCap

(* ------------------------------ locks ---------------------------------- *)
FreeMutex == [writer |-> NoProc, readers |-> {}]

\* mutex.Lock() can return
CanLock == mutex.writer = NoProc /\ mutex.readers = {}

\* mutex.RLock() can return
CanRLock == mutex.writer = NoProc

Locked(g) == [writer |-> g, readers |-> {}]

(* ------------------------------ expiry --------------------------------- *)
\* time.AfterFunc(d, ...) for key k
Timer(k, d) == [key |-> k, after |-> d]

\* scheduleDel that sets no timer
scheduleDelNever(ts, k, d) == ts

\* scheduleDel without its test for a zero timeout
scheduleDelAlways(ts, k, d) == ts (+) SetToBag({Timer(k, d)})

\* scheduleDel, for the timers ts and the timeout d: no timer when the
\* timeout is zero, else one more timer that fires after the timeout
scheduleDel(ts, k, d) ==
  IF d = 0 THEN ts ELSE ts (+) SetToBag({Timer(k, d)})

\* a deferred check that does not look at the key's lifetime again
ExpiredAlways(k) == TRUE

\* the test of the deferred check: time.Since(db.lifetimes[key]) >= db.timeout
Expired(k) == Since(k) >= timeout

(* ------------------------------ state ---------------------------------- *)
NoRet == [op |-> "none", key |-> NoKey, val |-> ZeroVal, ok |-> FALSE,
          err |-> FALSE, read |-> FALSE, saves |-> 0, last |-> FALSE]
IdleCb == [pc |-> "idle", key |-> NoKey]
IdleTmo == [pc |-> "idle", key |-> NoKey, todo |-> {}, visited |-> {}]
IdleIter == [pc |-> "idle", out |-> << >>, snap |-> << >>, loadErr |-> FALSE,
             call |-> "none"]
NoFile == [exists |-> FALSE, valid |-> FALSE, content |-> << >>, mtime |-> 0]

\* the result of an in-memory call
Returned(op, k, v, ok) == [NoRet EXCEPT !.op = op, !.key = k, !.val = v,
                                        !.ok = ok]

\* New[T]()
InitDB ==
  /\ store = "DB"
  /\ data = EmptyMap
  /\ lifetimes = EmptyMap
  /\ timeout = 0
  /\ mutex = FreeMutex
  /\ timers = EmptyBag
  /\ cb = IdleCb
  /\ tmo = IdleTmo
  /\ open = FALSE
  /\ lastSync = ZeroTime
  /\ file = NoFile
  /\ fsclock = 0
  /\ ret = NoRet
  /\ calls = 0
  /\ settled = EmptyMap
  /\ deleted = {}
  /\ orig = << >>
  /\ synced = FALSE
  /\ fresh = FALSE
  /\ expiry = FALSE
  /\ iter = IdleIter
  /\ mine = {}

\* a goroutine may issue a call on the DB
CanCall == store = "DB" /\ calls < MaxCalls

(* ---------------------------- DB.Add ------------------------------------ *)
\* Lock; data[key] = value; lifetimes[key] = Now(); scheduleDel(key); Unlock
Add(k, v) ==
  /\ CanCall
  /\ CanLock
  /\ data' = MapSet(data, k, v)
  /\ lifetimes' = MapSet(lifetimes, k, 0)
  /\ timers' = scheduleDel(timers, k, timeout)
  /\ calls' = calls + 1
  /\ settled' = MapSet(settled, k, [val |-> v, age |-> 0, fixed |-> TRUE])
  /\ deleted' = deleted \ {k}
  /\ ret' = Returned("Add", k, v, TRUE)
  /\ UNCHANGED <<store, timeout, mutex, dbVars, cacheVars, expiry>>
  /\ UNCHANGED <<iter, mine>>

(* ---------------------------- DB.Del ------------------------------------ *)
\* Lock; delete(data, key); delete(lifetimes, key); Unlock
Del(k) ==
  /\ CanCall
  /\ CanLock
  /\ data' = MapDelete(data, k)
  /\ lifetimes' = MapDelete(lifetimes, k)
  /\ calls' = calls + 1
  /\ settled' = MapDelete(settled, k)
  /\ deleted' = deleted \cup {k}
  /\ ret' = Returned("Del", k, ZeroVal, TRUE)
  /\ UNCHANGED <<store, timeout, mutex, timers, dbVars, cacheVars, expiry>>
  /\ UNCHANGED <<iter, mine>>

(* ------------------- DB.Get, DB.TryGet, DB.Len -------------------------- *)
\* RLock; return data[key]; RUnlock
Get(k) ==
  /\ CanCall
  /\ CanRLock
  /\ calls' = calls + 1
  /\ ret' = Returned("Get", k, MapGet(data, k), TRUE)
  /\ UNCHANGED <<store, data, lifetimes, timeout, mutex, timers, dbVars,
                 cacheVars, settled, deleted, expiry>>
  /\ UNCHANGED <<iter, mine>>

\* RLock; result, ok := data[key]; RUnlock
TryGet(k) ==
  /\ CanCall
  /\ CanRLock
  /\ calls' = calls + 1
  /\ ret' = Returned("TryGet", k, MapGet(data, k), k \in DOMAIN data)
  /\ UNCHANGED <<store, data, lifetimes, timeout, mutex, timers, dbVars,
                 cacheVars, settled, deleted, expiry>>
  /\ UNCHANGED <<iter, mine>>

\* RLock; return len(data); RUnlock
LenCall ==
  /\ CanCall
  /\ CanRLock
  /\ calls' = calls + 1
  /\ ret' = Returned("Len", NoKey, Cardinality(DOMAIN data), TRUE)
  /\ UNCHANGED <<store, data, lifetimes, timeout, mutex, timers, dbVars,
                 cacheVars, settled, deleted, expiry>>
  /\ UNCHANGED <<iter, mine>>

(* --------------------------- DB.Timeout --------------------------------- *)
\* db.timeout = timeout, with no lock taken; the range over db.data starts
TimeoutCall(d) ==
  /\ CanCall
  /\ tmo.pc = "idle"
  /\ timeout' = d
  /\ tmo' = [IdleTmo EXCEPT !.pc = "range", !.todo = DOMAIN data]
  /\ calls' = calls + 1
  /\ settled' = [k \in DOMAIN settled |-> [settled[k] EXCEPT !.fixed = FALSE]]
  /\ expiry' = (expiry \/ d > 0)
  /\ ret' = NoRet
  /\ UNCHANGED <<store, data, lifetimes, mutex, timers, cb, cacheVars,
                 deleted>>
  /\ UNCHANGED <<iter, mine>>

\* the range yields a key it has not yet produced; it ends when every key
\* that was there at its start and still is has been produced (a key added
\* meanwhile may be produced or skipped)
TimeoutRange ==
  /\ store = "DB"
  /\ tmo.pc = "range"
  /\ \/ \E k \in (DOMAIN data) \ tmo.visited :
          /\ tmo' = [tmo EXCEPT !.pc = "touch", !.key = k]
          /\ ret' = NoRet
     \/ /\ (tmo.todo \cap DOMAIN data) \subseteq tmo.visited
        /\ tmo' = IdleTmo
        /\ ret' = Returned("Timeout", NoKey, ZeroVal, TRUE)
  /\ UNCHANGED <<store, data, lifetimes, timeout, mutex, timers, cb,
                 cacheVars, calls, settled, deleted, expiry>>
  /\ UNCHANGED <<iter, mine>>

\* the loop body: db.lifetimes[key] = time.Now(); db.scheduleDel(key)
TimeoutTouch ==
  /\ store = "DB"
  /\ tmo.pc = "touch"
  /\ lifetimes' = MapSet(lifetimes, tmo.key, 0)
  /\ timers' = scheduleDel(timers, tmo.key, timeout)
  /\ tmo' = [tmo EXCEPT !.pc = "range", !.key = NoKey,
                        !.visited = @ \cup {tmo.key}]
  /\ ret' = NoRet
  /\ UNCHANGED <<store, data, timeout, mutex, cb, cacheVars, calls, settled,
                 deleted, expiry>>
  /\ UNCHANGED <<iter, mine>>

(* --------------------- the deferred eviction check ---------------------- *)
\* a timer whose time has come runs its callback: Lock, then the test
\* time.Since(lifetimes[key]) >= timeout; a stale check unlocks and returns
CbCheck(t) ==
  /\ store = "DB"
  /\ BagIn(t, timers)
  /\ t.after = 0
  /\ CanLock
  /\ timers' = timers (-) SetToBag({t})
  /\ IF Expired(t.key)
       THEN /\ cb' = [pc |-> "delete", key |-> t.key]
            /\ mutex' = Locked(TimerProc)
       ELSE /\ cb' = IdleCb
            /\ mutex' = FreeMutex
  /\ ret' = IF Expired(t.key) THEN NoRet
            ELSE Returned("Check", t.key, ZeroVal, FALSE)
  /\ UNCHANGED <<store, data, lifetimes, timeout, tmo, cacheVars, calls,
                 settled, deleted, expiry>>
  /\ UNCHANGED <<iter, mine>>

\* delete(data, key); delete(lifetimes, key); Unlock
CbDelete ==
  /\ store = "DB"
  /\ cb.pc = "delete"
  /\ data' = MapDelete(data, cb.key)
  /\ lifetimes' = MapDelete(lifetimes, cb.key)
  /\ cb' = IdleCb
  /\ mutex' = FreeMutex
  /\ ret' = Returned("Evict", cb.key, ZeroVal, TRUE)
  /\ UNCHANGED <<store, timeout, timers, tmo, cacheVars, calls, settled,
                 deleted, expiry>>
  /\ UNCHANGED <<iter, mine>>

(* ------------------------------ clock ----------------------------------- *)
Older(n) == IF n < AgeCap THEN n + 1 ELSE AgeCap

Sooner(t) == [t EXCEPT !.after = IF @ > 0 THEN @ - 1 ELSE 0]

\* the timers one unit of time later
TimersLater ==
  LET later == {Sooner(t) : t \in BagToSet(timers)}
      copies(u) == IF u.after = 0
                     THEN CopiesIn(u, timers)
                          + CopiesIn([u EXCEPT !.after = 1], timers)
                     ELSE CopiesIn([u EXCEPT !.after = @ + 1], timers)
  IN [u \in later |-> copies(u)]

\* one unit of time passes
Tick ==
  /\ lifetimes' = [k \in DOMAIN lifetimes |-> Older(lifetimes[k])]
  /\ timers' = TimersLater
  /\ settled' = IF store = "DB"
                  THEN [k \in DOMAIN settled |->
                          [settled[k] EXCEPT !.age = Older(@)]]
                  ELSE settled
  /\ ret' = NoRet
  /\ UNCHANGED <<store, data, timeout, mutex, dbVars, cacheVars, calls,
                 deleted, expiry>>
  /\ UNCHANGED <<iter, mine>>

(* ------------------------- DBCache: the file ---------------------------- *)
\* json.Encoder.Encode(db.data): the entries, in key order
Encode(m) ==
  LET ks == SelectSeq(KeyOrder, LAMBDA k : k \in DOMAIN m)
  IN [i \in 1..Len(ks) |-> <<ks[i], m[ks[i]]>>]

\* json.Decoder.Decode(&db.data): every entry read is stored into the map
\* passed in, which keeps the entries it had under other keys
\* a load that decodes nothing
DecodeNothing(content, m) == m

RECURSIVE Decode(_, _)
Decode(content, m) ==
  IF content = << >> THEN m
  ELSE Decode(Tail(content), MapSet(m, Head(content)[1], Head(content)[2]))

\* the file after the map m was written to it now
Written(m) == [exists |-> TRUE, valid |-> TRUE, content |-> Encode(m),
               mtime |-> fsclock]

\* the file after it was truncated and the write of the encoding failed
Truncated == [exists |-> TRUE, valid |-> FALSE, content |-> << >>,
              mtime |-> fsclock]

OkOnly == {"ok"}
\* what can go wrong in load: os.Stat fails, os.Open fails
LoadIO == {"ok", "stat", "open"}
\* what can go wrong in save: os.OpenFile fails, Encode fails after O_TRUNC
SaveIO == {"ok", "open", "write"}

\* db.save() of the map m over the file f: [err, file]
save(f, m, sio) ==
  CASE sio = "ok" -> [err |-> FALSE, file |-> Written(m)]
    [] sio = "open" -> [err |-> TRUE, file |-> f]
    [] sio = "write" -> [err |-> TRUE, file |-> Truncated]

\* a load that empties the map before it reads
loadResets(f, m, ls, lio) ==
  IF ~f.exists \/ lio = "stat"
    THEN [err |-> TRUE, data |-> m, lastSync |-> ls, read |-> FALSE]
  ELSE IF f.mtime < ls
    THEN [err |-> FALSE, data |-> m, lastSync |-> ls, read |-> FALSE]
  ELSE IF lio = "open"
    THEN [err |-> TRUE, data |-> EmptyMap, lastSync |-> f.mtime, read |-> FALSE]
  ELSE IF ~f.valid
    THEN [err |-> TRUE, data |-> EmptyMap, lastSync |-> f.mtime, read |-> TRUE]
  ELSE [err |-> FALSE, data |-> Decode(f.content, EmptyMap),
        lastSync |-> f.mtime, read |-> TRUE]

\* a load that also skips a file modified exactly at the last synchronization
loadNotNewer(f, m, ls, lio) ==
  IF ~f.exists \/ lio = "stat"
    THEN [err |-> TRUE, data |-> m, lastSync |-> ls, read |-> FALSE]
  ELSE IF f.mtime <= ls
    THEN [err |-> FALSE, data |-> m, lastSync |-> ls, read |-> FALSE]
  ELSE IF lio = "open"
    THEN [err |-> TRUE, data |-> m, lastSync |-> f.mtime, read |-> FALSE]
  ELSE IF ~f.valid
    THEN [err |-> TRUE, data |-> m, lastSync |-> f.mtime, read |-> TRUE]
  ELSE [err |-> FALSE, data |-> Decode(f.content, m), lastSync |-> f.mtime,
        read |-> TRUE]

\* db.load() for the file f, the map m and the last synchronization ls:
\* [err, data, lastSync, read], read telling whether the file was decoded
load(f, m, ls, lio) ==
  IF ~f.exists \/ lio = "stat"
    THEN [err |-> TRUE, data |-> m, lastSync |-> ls, read |-> FALSE]
  ELSE IF f.mtime < ls
    THEN [err |-> FALSE, data |-> m, lastSync |-> ls, read |-> FALSE]
  ELSE IF lio = "open"
    THEN [err |-> TRUE, data |-> m, lastSync |-> f.mtime, read |-> FALSE]
  ELSE IF ~f.valid
    THEN [err |-> TRUE, data |-> m, lastSync |-> f.mtime, read |-> TRUE]
  ELSE [err |-> FALSE, data |-> Decode(f.content, m), lastSync |-> f.mtime,
        read |-> TRUE]

\* the backing files a behaviour may start from
InitFiles ==
  {NoFile} \cup
  {[exists |-> TRUE, valid |-> TRUE, content |-> Encode(m), mtime |-> 0] :
     m \in {EmptyMap, [k \in {KeyOrder[Len(KeyOrder)]} |-> 1]}}

\* before Fromf: a path, with or without a file
InitCache ==
  /\ store = "DBCache"
  /\ data = EmptyMap
  /\ lifetimes = EmptyMap
  /\ timeout = 0
  /\ mutex = FreeMutex
  /\ timers = EmptyBag
  /\ cb = IdleCb
  /\ tmo = IdleTmo
  /\ open = FALSE
  /\ lastSync = ZeroTime
  /\ file \in InitFiles
  /\ fsclock = 0
  /\ ret = NoRet
  /\ calls = 0
  /\ settled = EmptyMap
  /\ deleted = {}
  /\ orig = << >>
  /\ synced = FALSE
  /\ fresh = FALSE
  /\ expiry = FALSE
  /\ iter = IdleIter
  /\ mine = {}

\* the result of a call on the DBCache
CacheReturned(op, k, v, ok, err, read, saves) ==
  [NoRet EXCEPT !.op = op, !.key = k, !.val = v, !.ok = ok, !.err = err,
                !.read = read, !.saves = saves]

(* ------------------------------ Fromf ----------------------------------- *)
\* a new DBCache on the path: an empty snapshot is saved when the file does
\* not exist, then load; the caller gets no store when that save fails
Fromf(lio, sio) ==
  /\ store = "DBCache"
  /\ ~open \/ calls < MaxWrites
  /\ timers = EmptyBag
  /\ iter.pc = "idle"
  /\ LET missing == ~file.exists
         S == IF missing THEN save(file, EmptyMap, sio)
                         ELSE [err |-> FALSE, file |-> file]
         L == load(S.file, EmptyMap, ZeroTime, lio)
     IN /\ missing \/ sio = "ok"      \* no save when the file exists
        /\ ~S.err \/ lio = "ok"       \* no load when the save failed
        /\ file' = S.file
        /\ open' = ~S.err
        /\ data' = IF S.err THEN EmptyMap ELSE L.data
        /\ lastSync' = IF S.err THEN ZeroTime ELSE L.lastSync
        /\ orig' = S.file.content
        /\ ret' = CacheReturned("Fromf", NoKey, ZeroVal, FALSE,
                                S.err \/ L.err, ~S.err /\ L.read,
                                IF missing THEN 1 ELSE 0)
  /\ lifetimes' = EmptyMap
  /\ timeout' = 0
  /\ mutex' = FreeMutex
  /\ settled' = [k \in DOMAIN settled |-> [settled[k] EXCEPT !.fixed = FALSE]]
  /\ deleted' = {}
  /\ synced' = FALSE
  /\ fresh' = TRUE
  /\ expiry' = FALSE
  /\ calls' = IF open THEN calls + 1 ELSE calls
  /\ mine' = {}
  /\ UNCHANGED <<store, timers, dbVars, fsclock, iter>>

\* a goroutine may issue a call on the DBCache, and take its lock
\* the load of the call that has just returned failed
LoadFailed ==
  /\ ret.err
  /\ \/ ret.op \in {"Get", "TryGet", "Len"}
     \/ ret.op = "Add" /\ ret.saves = 0
     \/ ret.op = "Fromf" /\ open

\* the load of the call that has just returned failed and left lastSync at the
\* modification time of the file, which is still there
Unread == LoadFailed /\ file.exists /\ lastSync = file.mtime

CanCallCache ==
  store = "DBCache" /\ open /\ calls < MaxWrites /\ CanLock

(* ------------- DBCache.Get, DBCache.TryGet, DBCache.Len ----------------- *)
\* Lock; load, and on an error return it; the read; Unlock
CacheRead(op, k, lio) ==
  /\ store = "DBCache" /\ open /\ CanLock
  /\ LET L == load(file, data, lastSync, lio)
         v == CASE L.err -> ZeroVal
                [] op = "Len" -> Cardinality(DOMAIN L.data)
                [] OTHER -> MapGet(L.data, k)
     IN /\ data' = L.data
        /\ lastSync' = L.lastSync
        /\ ret' = CacheReturned(op, k, v,
                                op = "TryGet" /\ ~L.err /\ k \in DOMAIN L.data,
                                L.err, L.read, 0)
  /\ UNCHANGED <<store, lifetimes, timeout, mutex, timers, dbVars, open, file,
                 fsclock, calls, settled, deleted, orig, synced, fresh, expiry>>
  /\ UNCHANGED <<iter, mine>>

CacheGet(k, lio) == CacheRead("Get", k, lio)

CacheTryGet(k, lio) == CacheRead("TryGet", k, lio)

CacheLen(lio) == CacheRead("Len", NoKey, lio)

(* --------------------------- DBCache.Add -------------------------------- *)
\* Lock; load, and on an error return it; data[key] = value;
\* lifetimes[key] = Now(); scheduleDel(key); return save(); Unlock
CacheAdd(k, v, lio, sio) ==
  /\ CanCallCache
  /\ LET L == load(file, data, lastSync, lio)
         D == MapSet(L.data, k, v)
         S == save(file, D, sio)
     IN /\ ~L.err \/ sio = "ok"       \* no save when load failed
        /\ lastSync' = L.lastSync
        /\ IF L.err
             THEN /\ data' = L.data
                  /\ UNCHANGED <<lifetimes, timers, file>>
                  /\ settled' = MapDelete(settled, k)
                  /\ synced' = FALSE
                  /\ mine' = mine
                  /\ ret' = CacheReturned("Add", k, v, FALSE, TRUE, L.read, 0)
             ELSE /\ data' = D
                  /\ lifetimes' = MapSet(lifetimes, k, 0)
                  /\ timers' = scheduleDel(timers, k, timeout)
                  /\ file' = S.file
                  /\ settled' = IF S.err THEN MapDelete(settled, k)
                                ELSE MapSet(settled, k, [val |-> v, age |-> 0,
                                                         fixed |-> TRUE])
                  /\ synced' = ~S.err
                  /\ mine' = mine \cup {k}
                  /\ ret' = CacheReturned("Add", k, v, FALSE, S.err, L.read, 1)
  /\ calls' = calls + 1
  /\ deleted' = deleted \ {k}
  /\ fresh' = FALSE
  /\ UNCHANGED <<store, timeout, mutex, dbVars, open, fsclock, orig, expiry>>
  /\ UNCHANGED iter

(* --------------------------- DBCache.Del -------------------------------- *)
\* the guard of Del without its test for a zero timeout
DelGuardElapsed(k) == Since(k) >= timeout

\* the test that guards the removal in Del
DelGuard(k) == timeout # 0 /\ Since(k) >= timeout

\* a Del that saves nothing
DelBodyNoSave(k, sio1, sio2) ==
  [data |-> IF DelGuard(k) THEN MapDelete(data, k) ELSE data,
   lifetimes |-> IF DelGuard(k) THEN MapDelete(lifetimes, k) ELSE lifetimes,
   file |-> file, err |-> FALSE, saves |-> 0, removed |-> DelGuard(k),
   last |-> FALSE]

\* a Del that returns the error of whichever save failed
DelBodyAnyErr(k, sio1, sio2) ==
  LET D == IF DelGuard(k) THEN MapDelete(data, k) ELSE data
      S1 == IF DelGuard(k) THEN save(file, D, sio1)
                           ELSE [err |-> FALSE, file |-> file]
      S2 == save(S1.file, D, sio2)
  IN [data |-> D,
      lifetimes |-> IF DelGuard(k) THEN MapDelete(lifetimes, k) ELSE lifetimes,
      file |-> S2.file, err |-> S1.err \/ S2.err,
      saves |-> IF DelGuard(k) THEN 2 ELSE 1,
      removed |-> DelGuard(k), last |-> S2.err]

\* the body of Del: when the guard holds, the two deletes and a save whose
\* error is only logged; then the save whose error is returned.
\* [data, lifetimes, file, err, saves, removed, last]: last, the final save
\* failed
DelBody(k, sio1, sio2) ==
  LET D == IF DelGuard(k) THEN MapDelete(data, k) ELSE data
      S1 == IF DelGuard(k) THEN save(file, D, sio1)
                           ELSE [err |-> FALSE, file |-> file]
      S2 == save(S1.file, D, sio2)
  IN [data |-> D,
      lifetimes |-> IF DelGuard(k) THEN MapDelete(lifetimes, k) ELSE lifetimes,
      file |-> S2.file, err |-> S2.err,
      saves |-> IF DelGuard(k) THEN 2 ELSE 1,
      removed |-> DelGuard(k), last |-> S2.err]

CacheDel(k, sio1, sio2) ==
  /\ CanCallCache
  /\ DelGuard(k) \/ sio1 = "ok"      \* one save when nothing is removed
  /\ LET B == DelBody(k, sio1, sio2)
     IN /\ data' = B.data
        /\ lifetimes' = B.lifetimes
        /\ file' = B.file
        /\ synced' = ~B.err
        /\ deleted' = IF ~B.err /\ k \in DOMAIN settled
                        THEN deleted \cup {k} ELSE deleted \ {k}
        /\ ret' = [CacheReturned("Del", k, ZeroVal, B.removed, B.err, FALSE,
                                 B.saves)
                     EXCEPT !.last = B.last]
  /\ calls' = calls + 1
  /\ settled' = MapDelete(settled, k)
  /\ fresh' = FALSE
  /\ UNCHANGED <<store, timeout, mutex, timers, dbVars, open, lastSync,
                 fsclock, orig, expiry>>
  /\ UNCHANGED <<iter, mine>>

\* the timer set by scheduleDel has fired: db.Del(key), its error dropped
CacheFire(t, sio1, sio2) ==
  /\ store = "DBCache"
  /\ BagIn(t, timers)
  /\ t.after = 0
  /\ CanLock
  /\ timers' = timers (-) SetToBag({t})
  /\ DelGuard(t.key) \/ sio1 = "ok"
  /\ LET B == DelBody(t.key, sio1, sio2)
     IN /\ data' = B.data
        /\ lifetimes' = B.lifetimes
        /\ file' = B.file
        /\ synced' = ~B.err
        /\ settled' = IF B.removed THEN MapDelete(settled, t.key) ELSE settled
        /\ ret' = [CacheReturned("Evict", t.key, ZeroVal, B.removed, B.err,
                                 FALSE, B.saves)
                     EXCEPT !.last = B.last]
  /\ fresh' = FALSE
  /\ UNCHANGED <<store, timeout, mutex, dbVars, open, lastSync, fsclock, calls,
                 deleted, orig, expiry>>
  /\ UNCHANGED <<iter, mine>>

(* ------------------------- DBCache.Timeout ------------------------------ *)
\* scheduleDel for each of the keys ks
RECURSIVE ScheduleEach(_, _, _)
ScheduleEach(ts, ks, d) ==
  IF ks = {} THEN ts
  ELSE LET k == CHOOSE x \in ks : TRUE
       IN ScheduleEach(scheduleDel(ts, k, d), ks \ {k}, d)

\* Lock; db.timeout = timeout; for each key of data: lifetimes[key] = Now()
\* and scheduleDel(key); Unlock
CacheTimeout(d) ==
  /\ CanCallCache
  /\ timeout' = d
  /\ lifetimes' = [k \in (DOMAIN lifetimes) \cup (DOMAIN data) |->
                     IF k \in DOMAIN data THEN 0 ELSE lifetimes[k]]
  /\ timers' = ScheduleEach(timers, DOMAIN data, d)
  /\ calls' = calls + 1
  /\ settled' = [k \in DOMAIN settled |-> [settled[k] EXCEPT !.fixed = FALSE]]
  /\ expiry' = (expiry \/ d > 0)
  /\ fresh' = FALSE
  /\ ret' = CacheReturned("Timeout", NoKey, ZeroVal, FALSE, FALSE, FALSE, 0)
  /\ UNCHANGED <<store, data, mutex, dbVars, open, lastSync, file, fsclock,
                 deleted, orig, synced>>
  /\ mine' = mine \cup DOMAIN data
  /\ UNCHANGED iter

(* ------------------- the file's other writers --------------------------- *)
\* another process replaces the file's content, stamped t (a copy that keeps
\* the source's modification time stamps it in the past)
ExtWrite(m, valid, t) ==
  /\ store = "DBCache"
  /\ file' = IF valid THEN [Written(m) EXCEPT !.mtime = t]
             ELSE [Truncated EXCEPT !.mtime = t]
  /\ valid \/ m = EmptyMap
  /\ settled' = EmptyMap
  /\ deleted' = {}
  /\ synced' = FALSE
  /\ orig' = file'.content
  /\ ret' = NoRet
  /\ UNCHANGED <<store, data, lifetimes, timeout, mutex, timers, dbVars, open,
                 lastSync, fsclock, calls, fresh, expiry>>
  /\ UNCHANGED <<iter, mine>>

\* another process removes the file
ExtRemove ==
  /\ store = "DBCache"
  /\ file.exists
  /\ file' = NoFile
  /\ settled' = EmptyMap
  /\ deleted' = {}
  /\ synced' = FALSE
  /\ orig' = file'.content
  /\ ret' = NoRet
  /\ UNCHANGED <<store, data, lifetimes, timeout, mutex, timers, dbVars, open,
                 lastSync, fsclock, calls, fresh, expiry>>
  /\ UNCHANGED <<iter, mine>>

\* the filesystem's clock advances
FsTick ==
  /\ store = "DBCache"
  /\ fsclock < MaxTime
  /\ fsclock' = fsclock + 1
  /\ ret' = NoRet
  /\ UNCHANGED <<store, data, lifetimes, timeout, mutex, timers, dbVars, open,
                 lastSync, file, calls, settled, deleted, orig, synced, fresh,
                 expiry>>
  /\ UNCHANGED <<iter, mine>>

(* --------------------------- specification ------------------------------ *)
NextDB ==
  \/ \E k \in Keys, v \in Values : Add(k, v)
  \/ \E k \in Keys : Del(k)
  \/ \E k \in Keys : Get(k)
  \/ \E k \in Keys : TryGet(k)
  \/ LenCall
  \/ \E d \in Durations : TimeoutCall(d)
  \/ TimeoutRange
  \/ TimeoutTouch
  \/ \E t \in BagToSet(timers) : CbCheck(t)
  \/ CbDelete
  \/ Tick

SpecDB == InitDB /\ [][NextDB]_vars

\* the maps another writer may leave in the file
ExtMaps == {EmptyMap} \cup {[k \in ks |-> 1] : ks \in (SUBSET Keys) \ {{}}}

\* the calls on a DBCache, with the outcomes the file operations may have
CacheCalls(LIO, SIO) ==
  \/ \E lio \in LIO, sio \in SIO : Fromf(lio, sio)
  \/ \E k \in Keys, lio \in LIO : CacheGet(k, lio)
  \/ \E k \in Keys, lio \in LIO : CacheTryGet(k, lio)
  \/ \E lio \in LIO : CacheLen(lio)
  \/ \E k \in Keys, v \in Values, lio \in LIO, sio \in SIO :
        CacheAdd(k, v, lio, sio)
  \/ \E k \in Keys, sio1 \in SIO, sio2 \in SIO : CacheDel(k, sio1, sio2)
  \/ \E d \in Durations : CacheTimeout(d)
  \/ \E t \in BagToSet(timers), sio1 \in SIO, sio2 \in SIO :
        CacheFire(t, sio1, sio2)

\* the calls on a DBCache with no expiry configured
PlainCalls ==
  \/ Fromf("ok", "ok")
  \/ \E k \in Keys : CacheGet(k, "ok")
  \/ \E k \in Keys : CacheTryGet(k, "ok")
  \/ CacheLen("ok")
  \/ \E k \in Keys, v \in Values : CacheAdd(k, v, "ok", "ok")
  \/ \E k \in Keys : CacheDel(k, "ok", "ok")

\* a DBCache on a reliable filesystem, the only writer to its file
NextCache ==
  \/ CacheCalls(OkOnly, OkOnly)
  \/ FsTick
  \/ Tick

SpecCache == InitCache /\ [][NextCache]_vars

\* a DBCache whose file operations may fail, the only writer to its file;
\* Get is the read, TryGet and Len going through the same load
NextCacheIO ==
  \/ \E lio \in LoadIO, sio \in SaveIO : Fromf(lio, sio)
  \/ \E k \in Keys, lio \in LoadIO : CacheGet(k, lio)
  \/ \E k \in Keys, v \in Values, lio \in LoadIO, sio \in SaveIO :
        CacheAdd(k, v, lio, sio)
  \/ \E k \in Keys, sio1 \in SaveIO, sio2 \in SaveIO : CacheDel(k, sio1, sio2)
  \/ \E d \in Durations : CacheTimeout(d)
  \/ \E t \in BagToSet(timers), sio1 \in SaveIO, sio2 \in SaveIO :
        CacheFire(t, sio1, sio2)
  \/ Tick

SpecCacheIO == InitCache /\ [][NextCacheIO]_vars

\* a DBCache whose loads may fail and whose saves succeed, the only writer to
\* its file
NextRetry ==
  \/ CacheCalls(LoadIO, OkOnly)
  \/ Tick

SpecRetry == InitCache /\ [][NextRetry]_vars

\* a DBCache with no expiry configured on a reliable filesystem, with other
\* writers to its file
NextShared ==
  \/ PlainCalls
  \/ \E m \in ExtMaps, valid \in BOOLEAN, t \in 0..fsclock : ExtWrite(m, valid, t)
  \/ ExtRemove
  \/ FsTick

SpecShared == InitCache /\ [][NextShared]_vars

\* a DBCache with expiry on a reliable filesystem, with another writer that
\* replaces its file
NextSharedExpiry ==
  \/ Fromf("ok", "ok")
  \/ \E k \in Keys : CacheGet(k, "ok")
  \/ \E k \in Keys, v \in Values : CacheAdd(k, v, "ok", "ok")
  \/ \E k \in Keys : CacheDel(k, "ok", "ok")
  \/ \E d \in Durations : CacheTimeout(d)
  \/ \E t \in BagToSet(timers) : CacheFire(t, "ok", "ok")
  \/ \E m \in ExtMaps : ExtWrite(m, TRUE, fsclock)
  \/ Tick

SpecSharedExpiry == InitCache /\ [][NextSharedExpiry]_vars

(* ------------------------- claims: DB ----------------------------------- *)
\* what TryGet(k) returns in the current state of the DB
TryGetNow(k) == <<MapGet(data, k), k \in DOMAIN data>>

\* C1: with no expiry ever configured, a key whose last Add has returned,
\* with no Del or Add of it issued since, is in the map with the value added,
\* and every Get or TryGet of it returns that value and reports it found
NoLostWrite ==
  (store = "DB" /\ ~expiry) =>
    /\ \A k \in DOMAIN settled : TryGetNow(k) = <<settled[k].val, TRUE>>
    /\ (ret.op \in {"Get", "TryGet"} /\ ret.key \in DOMAIN settled) =>
         (ret.val = settled[ret.key].val /\ ret.ok)

\* two Adds on distinct keys have returned and a TryGet then found its key
NoLostWriteWitness ==
  /\ store = "DB" /\ ~expiry
  /\ DOMAIN settled = Keys
  /\ ret.op = "TryGet" /\ ret.ok /\ ret.val = settled[ret.key].val

\* C2: after Del(k) has returned and until a later Add(k), k has no entry and
\* no lifetime record, TryGet(k) reports not found, and Len() is 0 once every
\* added key has been deleted
DelRemovesBoth ==
  store = "DB" =>
    /\ \A k \in deleted : k \notin DOMAIN data /\ k \notin DOMAIN lifetimes
    /\ (ret.op = "TryGet" /\ ret.key \in deleted) => ~ret.ok
    /\ (ret.op = "Len" /\ settled = EmptyMap) => ret.val = 0

NoEvictionWhenDisabled ==
  [][(store = "DB" /\ timeout = 0 /\ tmo.pc = "idle" /\ ret'.op = "Evict")
       => DOMAIN data' = DOMAIN data]_vars
(* ------------------------ the stores with expiry ------------------------ *)
\* the calls that write, on either store, and the timers; the runtime runs a
\* timer's callback once its time has come, a goroutine inside Timeout goes
\* on, and time passes
InitExpiry == InitDB \/ InitCache

TimerFires ==
  \/ \E t \in BagToSet(timers) : CbCheck(t)
  \/ CbDelete
  \/ \E t \in BagToSet(timers) : CacheFire(t, "ok", "ok")

TimeoutGoesOn == TimeoutRange \/ TimeoutTouch

NextExpiry ==
  \/ \E k \in Keys, v \in Values : calls < MaxWrites /\ Add(k, v)
  \/ \E k \in Keys : calls < MaxWrites /\ Del(k)
  \/ \E d \in Durations : calls < MaxWrites /\ TimeoutCall(d)
  \/ TimeoutGoesOn
  \/ Fromf("ok", "ok")
  \/ \E k \in Keys, v \in Values : CacheAdd(k, v, "ok", "ok")
  \/ \E k \in Keys : CacheDel(k, "ok", "ok")
  \/ \E d \in Durations : CacheTimeout(d)
  \/ TimerFires
  \/ Tick

FairSpec ==
  /\ InitExpiry
  /\ [][NextExpiry]_vars
  /\ WF_vars(Tick)
  /\ WF_vars(TimerFires)
  /\ WF_vars(TimeoutGoesOn)

(* ------------------------------- Seq2 ---------------------------------- *)
\* the goroutine that consumes a Seq2 sequence
IterProc == "iter"

\* a Seq2 that takes no lock
SeqLockNone(m) == m

\* the lock Seq2 takes before it ranges: RLock on a DB, Lock on a DBCache
SeqLock(m) ==
  IF store = "DB" THEN [m EXCEPT !.readers = @ \cup {IterProc}]
                  ELSE Locked(IterProc)

\* the deferred RUnlock or Unlock of Seq2
SeqUnlock(m) ==
  IF store = "DB" THEN [m EXCEPT !.readers = @ \ {IterProc}]
                  ELSE [m EXCEPT !.writer = NoProc]

\* the keys yielded so far
Yielded == {iter.out[i].key : i \in 1..Len(iter.out)}

\* the entries yielded so far, as a map
YieldedMap ==
  [k \in Yielded |->
     iter.out[CHOOSE i \in 1..Len(iter.out) : iter.out[i].key = k].val]

\* DB.Seq2, up to the range statement: the sequence is consumed
SeqBegin ==
  /\ store = "DB"
  /\ iter.pc = "idle"
  /\ CanRLock
  /\ mutex' = SeqLock(mutex)
  /\ iter' = [IdleIter EXCEPT !.pc = "loop", !.snap = data]
  /\ ret' = NoRet
  /\ UNCHANGED <<store, data, lifetimes, timeout, timers, dbVars, cacheVars,
                 calls, settled, deleted, expiry, mine>>

\* DBCache.Seq2, up to the range statement: the error of load is dropped
CacheSeqBegin(lio) ==
  /\ store = "DBCache" /\ open
  /\ iter.pc = "idle"
  /\ CanLock
  /\ mutex' = SeqLock(mutex)
  /\ LET L == load(file, data, lastSync, lio)
     IN /\ data' = L.data
        /\ lastSync' = L.lastSync
        /\ iter' = [IdleIter EXCEPT !.pc = "loop", !.snap = L.data,
                                    !.loadErr = L.err]
  /\ ret' = NoRet
  /\ UNCHANGED <<store, lifetimes, timeout, timers, dbVars, open, file,
                 fsclock, calls, settled, deleted, orig, synced, fresh, expiry,
                 mine>>

\* the range statement hands the next entry of the map to yield: the
\* consumer's loop body starts
SeqYield ==
  /\ iter.pc = "loop"
  /\ \E k \in (DOMAIN data) \ Yielded :
       iter' = [iter EXCEPT !.pc = "body",
                            !.out = Append(@, [key |-> k, val |-> data[k]])]
  /\ ret' = NoRet
  /\ UNCHANGED <<store, data, lifetimes, timeout, mutex, timers, dbVars,
                 cacheVars, calls, settled, deleted, expiry, mine>>

\* the loop body ends and yield returns true
SeqNext ==
  /\ iter.pc = "body"
  /\ iter' = [iter EXCEPT !.pc = "loop"]
  /\ ret' = NoRet
  /\ UNCHANGED <<store, data, lifetimes, timeout, mutex, timers, dbVars,
                 cacheVars, calls, settled, deleted, expiry, mine>>

\* the range is exhausted, or the consumer stops and yield returns false:
\* Seq2 returns and its deferred unlock runs
SeqEnd ==
  /\ \/ iter.pc = "loop" /\ DOMAIN data \subseteq Yielded
     \/ iter.pc = "body"
  /\ mutex' = SeqUnlock(mutex)
  /\ iter' = IdleIter
  /\ ret' = Returned("Seq2", NoKey, Len(iter.out), TRUE)
  /\ UNCHANGED <<store, data, lifetimes, timeout, timers, dbVars, cacheVars,
                 calls, settled, deleted, expiry, mine>>

\* the operations that take the lock exclusively
SeqCalls ==
  IF store = "DB" THEN {"Add", "Del"}
                  ELSE {"Get", "TryGet", "Len", "Add", "Del"}

\* a lock that its holder may take again
CanReenterOwn ==
  /\ mutex.writer \in {NoProc, IterProc}
  /\ mutex.readers \subseteq {IterProc}

\* mutex.Lock() called by the consumer's goroutine can return
CanReenter == CanLock

\* the loop body calls op on the store it iterates: the call starts with
\* mutex.Lock(), and goes on once Lock() returns
SeqReenter(op) ==
  /\ op \in SeqCalls
  /\ \/ /\ iter.pc = "body"
        /\ iter' = [iter EXCEPT !.pc = "blocked", !.call = op]
     \/ /\ iter.pc = "blocked" /\ iter.call = op
        /\ CanReenter
        /\ iter' = [iter EXCEPT !.pc = "body", !.call = "none"]
  /\ ret' = NoRet
  /\ UNCHANGED <<store, data, lifetimes, timeout, mutex, timers, dbVars,
                 cacheVars, calls, settled, deleted, expiry, mine>>

\* the operations named when a store is iterated
AllCalls == {"Get", "TryGet", "Len", "Add", "Del"}

\* either store, with its writers, its timers and a consumer of Seq2; the
\* save of a Del and the load of a Seq2 may fail
NextSeq ==
  \/ \E k \in Keys, v \in Values : calls < MaxWrites /\ Add(k, v)
  \/ \E k \in Keys : calls < MaxWrites /\ Del(k)
  \/ \E d \in Durations : calls < MaxWrites /\ TimeoutCall(d)
  \/ TimeoutGoesOn
  \/ Fromf("ok", "ok")
  \/ \E k \in Keys, v \in Values : CacheAdd(k, v, "ok", "ok")
  \/ \E k \in Keys, sio1 \in SaveIO, sio2 \in SaveIO : CacheDel(k, sio1, sio2)
  \/ \E d \in Durations : CacheTimeout(d)
  \/ TimerFires
  \/ Tick
  \/ SeqBegin
  \/ \E lio \in LoadIO : CacheSeqBegin(lio)
  \/ SeqYield
  \/ SeqNext
  \/ SeqEnd
  \/ \E op \in AllCalls : SeqReenter(op)

SpecSeq == InitExpiry /\ [][NextSeq]_vars

\* a TryGet(k) issued now finds k: on the DBCache it reconciles first
Found(k) ==
  IF store = "DB" THEN k \in DOMAIN data
  ELSE LET L == load(file, data, lastSync, "ok")
       IN ~L.err /\ k \in DOMAIN L.data

\* the last returned Add(k, v) was made with a timeout configured, and no
\* Timeout call was made since
AddedToExpire(k) ==
  k \in DOMAIN settled /\ settled[k].fixed /\ timeout > 0

\* C4: with a timeout configured, a key added and followed by no further
\* Add of it and no Timeout call is eventually not found, on either store,
\* when timer callbacks are run.
ExpiryEventuallyRemoves ==
  \A k \in Keys : []<>(~AddedToExpire(k) \/ ~Found(k))

ExpiryEventuallyRemovesWitness ==
  /\ ret.op = "Evict" /\ ret.ok /\ timeout > 0
  /\ ~Found(ret.key)
  /\ store = "DB" => AddedToExpire(ret.key)
  /\ store = "DBCache" => data # EmptyMap

(* --------------------------- claims: DBCache ---------------------------- *)
\* the map a store constructed now on the file would decode
OnDisk == Decode(file.content, EmptyMap)

\* C6: on a file-backed store with no expiry configured, once Adds of new keys
\* have all succeeded and Dels of the same keys have all succeeded, the file's
\* content is what it was before the Adds and none of the keys has an entry.
AddThenDelIsIdentity ==
  (/\ store = "DBCache" /\ open /\ ~expiry
   /\ deleted # {} /\ settled = EmptyMap
   /\ \A k \in deleted : k \notin DOMAIN Decode(orig, EmptyMap))
  => /\ file.exists /\ file.valid /\ file.content = orig
     /\ \A k \in deleted : k \notin DOMAIN data /\ k \notin DOMAIN OnDisk

\* a step that is the call Del(k) on the file-backed store
IsCacheDel(k) ==
  store = "DBCache" /\ calls' = calls + 1 /\ ret'.op = "Del" /\ ret'.key = k

FileRoundTrip ==
  store = "DBCache" =>
    /\ (fresh /\ open /\ ret.op = "Get" /\ ret.key \in DOMAIN settled)
         => ~ret.err /\ ret.val = settled[ret.key].val
    /\ (ret.op = "Fromf" /\ ret.saves = 1 /\ ~ret.err)
         => /\ data = EmptyMap
            /\ file.exists /\ file.valid /\ file.content = Encode(EmptyMap)

FileRoundTripWitness ==
  /\ store = "DBCache" /\ fresh /\ open /\ ret.op = "Get"
  /\ ret.key \in DOMAIN settled /\ ret.read /\ ~ret.err
  /\ ret.val = settled[ret.key].val
  /\ lifetimes = EmptyMap

\* C9: on a single store with no other writer to its file, when the last Add
\* or Del, those of deferred evictions included, returned no error and no
\* call is in flight, the file's content equals the entry map.
FileEqualsMemory ==
  (store = "DBCache" /\ open /\ synced /\ CanLock)
    => file.exists /\ file.valid /\ OnDisk = data

FileEqualsMemoryWitness ==
  /\ store = "DBCache" /\ open /\ synced /\ CanLock
  /\ ret.op = "Evict" /\ ret.ok /\ ~ret.err
  /\ data # EmptyMap /\ OnDisk = data

\* C10: a call on the file-backed store reads the file only when the file's
\* modification time is strictly newer than lastSync.
ReadsOnlyNewerFile ==
  [][(/\ store = "DBCache" /\ open
      /\ ret'.op \in {"Get", "TryGet", "Len", "Add"}
      /\ ret'.read)
     => file.mtime > lastSync]_vars

\* the operations of the file-backed store that start with load
LoadOps == {"Get", "TryGet", "Len", "Add"}

\* C11: when a call has read the file with success, the entry map is exactly
\* the map the file holds.
LoadReplacesMap ==
  (store = "DBCache" /\ open /\ ret.op \in {"Get", "TryGet", "Len"}
   /\ ret.read /\ ~ret.err)
    => data = OnDisk

\* C12: a Del on the file-backed store reconciles first: what another writer
\* left in the file under other keys is in the file after the Del, and the
\* Del fails when the file cannot be loaded.
DelReconciles ==
  [][\A k \in Keys :
       IsCacheDel(k) =>
         /\ (file.exists /\ file.valid) =>
              \A x \in (DOMAIN OnDisk) \ {k} :
                 x \in DOMAIN OnDisk' /\ OnDisk'[x] = OnDisk[x]
         /\ (~file.exists \/ ~file.valid) => ret'.err]_vars

(* ------------------------- claims: DB, locking -------------------------- *)
\* C13: a Timeout call in flight on the in-memory store holds the exclusive
\* lock, so it never runs while another goroutine holds the lock to write.
TimeoutHoldsLock ==
  store = "DB" =>
    /\ tmo.pc # "idle" => mutex.writer \notin {NoProc, TimerProc}
    /\ ~(tmo.pc = "touch" /\ cb.pc = "delete")

\* C17: whenever the lock of the in-memory store is free, the entry map and
\* the lifetime map have the same keys.
SameKeys ==
  (store = "DB" /\ CanLock) => DOMAIN data = DOMAIN lifetimes

(* ---------------------- claims: DBCache, errors ------------------------- *)
\* a step that is the call Add(k, v) on the file-backed store
IsCacheAdd(k, v) ==
  /\ store = "DBCache" /\ calls' = calls + 1
  /\ ret'.op = "Add" /\ ret'.key = k /\ ret'.val = v

\* C14: an Add on the file-backed store whose load fails returns the error
\* and changes neither the entry map, the lifetimes, the timers nor the
\* file; an Add whose save fails returns the error with the entry and its
\* lifetime applied; an Add that returns no error has saved the entry map.
AddFailure ==
  [][\A k \in Keys, v \in Values :
       IsCacheAdd(k, v) =>
         /\ ret'.saves = 0 =>
              /\ ret'.err
              /\ data' = data /\ lifetimes' = lifetimes
              /\ timers' = timers /\ file' = file
         /\ ret'.saves = 1 =>
              /\ k \in DOMAIN data' /\ data'[k] = v
              /\ k \in DOMAIN lifetimes' /\ lifetimes'[k] = 0
              /\ timers' = scheduleDel(timers, k, timeout)
              /\ ret'.err => file' \in {file, Truncated}
         /\ ~ret'.err => ret'.saves = 1 /\ file' = Written(data')]_vars

AddFailureWitness ==
  /\ store = "DBCache" /\ ret.op = "Add" /\ ret.err /\ ret.saves = 1
  /\ ret.key \in DOMAIN data /\ data[ret.key] = ret.val
  /\ ret.key \in DOMAIN lifetimes
  /\ file.valid /\ ret.key \notin DOMAIN OnDisk

\* C15: a Del of the file-backed store returns exactly the outcome of its
\* final save, whatever the outcome of the save inside the conditional
\* removal, and with no error returned the file holds the entry map. Seq2
\* surfaces no failure of load: after a failed load the entry map is as it
\* was, and the iteration that runs to its end has yielded exactly the
\* entries in memory
SwallowedErrors ==
  [][/\ \A k \in Keys : IsCacheDel(k) =>
          /\ ret'.err = ret'.last
          /\ ~ret'.err => file' = Written(data')
     /\ (store = "DBCache" /\ iter.pc = "idle" /\ iter'.pc = "loop"
           /\ iter'.loadErr) =>
          (data' = data /\ iter'.snap = data)
     /\ (store = "DBCache" /\ iter.loadErr /\ iter.pc = "loop"
           /\ iter'.pc = "idle") =>
          (YieldedMap = data /\ ret'.op = "Seq2" /\ ~ret'.err)]_vars

\* a Seq2 whose load failed has yielded every entry in memory
SwallowedErrorsWitness ==
  /\ store = "DBCache"
  /\ iter.pc = "loop" /\ iter.loadErr
  /\ iter.out # << >>
  /\ YieldedMap = data

(* --------------------------- claims: Seq2 ------------------------------- *)
\* C16: while a Seq2 of the in-memory store is under way it holds the lock
\* shared, so no writer holds or can take it and the entry map is as it was
\* when the iteration started; no key is yielded twice, every entry yielded
\* is an entry of the map at the start with its value then, and once the
\* range is exhausted every key of the map at the start has been yielded
SnapshotScan ==
  (store = "DB" /\ iter.pc # "idle") =>
    /\ IterProc \in mutex.readers /\ mutex.writer = NoProc /\ ~CanLock
    /\ data = iter.snap
    /\ \A i, j \in 1..Len(iter.out) :
         iter.out[i].key = iter.out[j].key => i = j
    /\ \A i \in 1..Len(iter.out) :
         /\ iter.out[i].key \in DOMAIN iter.snap
         /\ iter.out[i].val = iter.snap[iter.out[i].key]
    /\ (iter.pc = "loop" /\ DOMAIN data \subseteq Yielded) =>
         Yielded = DOMAIN iter.snap

\* a scan has yielded every entry while the deferred check of one of them is
\* due and kept waiting
SnapshotScanWitness ==
  /\ store = "DB"
  /\ iter.pc = "loop" /\ iter.out # << >> /\ Yielded = DOMAIN iter.snap
  /\ \E t \in BagToSet(timers) : t.after = 0 /\ Expired(t.key)

\* C18: once the loop body of a Seq2 has called an operation that takes the
\* lock exclusively on the store it iterates (Add or Del on a DB; Get,
\* TryGet, Len, Add or Del on a DBCache), the call stays blocked on the lock
\* in every later step: it does not return and the iteration does not end
ReentryDeadlocks ==
  [][iter.pc = "blocked" =>
       (iter' = iter /\ mutex' = mutex /\ ~CanLock')]_vars

\* the loop body of a Seq2 over a DBCache has called Get
ReentryDeadlocksWitness ==
  /\ store = "DBCache"
  /\ iter.pc = "blocked" /\ iter.call = "Get"
  /\ iter.out # << >>

(* --------------------- claims: DBCache, expiry -------------------------- *)
\* k has an entry that this store has neither added nor refreshed by Timeout
FromDisk(k) ==
  store = "DBCache" /\ open /\ k \in DOMAIN data /\ k \notin mine

\* C19: with the timeout above zero, a key that is in the entry map of a
\* file-backed store and that the store has neither added nor refreshed has
\* no lifetime and no pending timer; no eviction removes it, it leaves the
\* map only by a Del of it (or with the store, at the next Fromf), and a Del
\* of it removes it
DiskKeysNeverExpire ==
  [][\A k \in Keys : (FromDisk(k) /\ timeout > 0) =>
       /\ k \notin DOMAIN lifetimes
       /\ \A t \in BagToSet(timers) : t.key # k
       /\ ret'.op = "Evict" => k \in DOMAIN data'
       /\ k \notin DOMAIN data' => (IsCacheDel(k) \/ ret'.op = "Fromf")
       /\ IsCacheDel(k) => (ret'.ok /\ k \notin DOMAIN data')]_vars

\* an eviction has just removed a key the store had added, and a key the
\* store had only read from its file is still in the entry map
DiskKeysNeverExpireWitness ==
  /\ store = "DBCache" /\ timeout > 0
  /\ ret.op = "Evict" /\ ret.ok /\ ret.key \in mine
  /\ ret.key \notin DOMAIN data
  /\ \E k \in Keys : FromDisk(k)

\* C20: a failed load is tried again. When the load of the last call failed
\* and left lastSync at the modification time of the file, the next Get,
\* TryGet, Len or Add, with the file not modified in between, goes to the
\* file again: it reads it or fails in the attempt, and a Get, TryGet or Len
\* that returns no error leaves every entry of the file in the entry map
FailedLoadRetried ==
  [][(store = "DBCache" /\ Unread /\ ret'.op \in LoadOps) =>
       /\ ret'.err \/ ret'.read
       /\ (~ret'.err /\ ret'.op # "Add") =>
            \A x \in DOMAIN OnDisk :
              x \in DOMAIN data' /\ data'[x] = OnDisk[x]]_vars

\* a Get has failed after lastSync was set to the modification time of the
\* file, whose entries are valid and not in memory
FailedLoadRetriedWitness ==
  /\ store = "DBCache" /\ Unread
  /\ ret.op = "Get" /\ ~ret.read
  /\ file.valid
  /\ ret.key \in DOMAIN OnDisk /\ ret.key \notin DOMAIN data

====
